---- MODULE Spec2Model ----
(***************************************************************************)
(* The council dependency-graph coordinator state                          *)
(* (lib/council-server/src/server/graph.rs): NodeMetadata and              *)
(* ChangeSetGraph, driven by workers that register graphs, are handed      *)
(* nodes by fetch_all_available, answer with mark_node_as_processed and    *)
(* cancel with remove_channel.                                             *)
(***************************************************************************)
EXTENDS Naturals, Sequences, FiniteSets, TLC

\* ------------------------------------------------------------------ bounds
\* Number of merge_dependency_graph calls in one behaviour.
MaxMerges == 3

\* Number of ValueCreationQueue::push calls in one behaviour.
MaxPushes == 4

\* Number of merge_dependency_graph calls in one behaviour on two change sets.
MaxMergesTwo == 3

\* Reply channels (worker mailboxes), change-set ids and node ids.
Channels == {"w1", "w2"}
ChangeSets == {"cs1"}
Nodes == {"A", "B", "C"}

\* Option::None for an Option<String>.
None == "none"

\* Graph = HashMap<Id, Vec<Id>>: the graphs a worker may submit. They are the
\* graphs of the scenarios (a single node, a pair, the linear chain, the
\* fan-out), graphs that name a dependency they do not declare, and the
\* empty graph. Every edge goes from an earlier id to a later one (A before B
\* before C), so every union of submitted graphs is acyclic.
EmptyInput == [ n \in {} |-> {} ]

Graphs ==
    { EmptyInput,
      [ n \in {"A"} |-> {} ],
      [ n \in {"B"} |-> {} ],
      [ n \in {"A"} |-> {"B"} ],
      [ n \in {"B"} |-> {"C"} ],
      [ n \in {"A", "B"} |-> IF n = "A" THEN {"B"} ELSE {} ],
      [ n \in {"A", "B", "C"} |->
          IF n = "A" THEN {"B"} ELSE IF n = "B" THEN {"C"} ELSE {} ],
      [ n \in {"A", "B", "C"} |-> IF n = "C" THEN {} ELSE {"C"} ] }

\* Two change sets, and the graphs submitted to them: A alone, A with an
\* undeclared dependency, and the pair.
TwoChangeSets == {"cs1", "cs2"}

TwoGraphs ==
    { [ n \in {"A"} |-> {} ],
      [ n \in {"A"} |-> {"B"} ],
      [ n \in {"A", "B"} |-> IF n = "A" THEN {"B"} ELSE {} ] }

Range(s) == { s[i] : i \in DOMAIN s }

\* VecDeque::retain(|el| el != reply_channel)
RECURSIVE Retain(_, _)
Retain(s, ch) ==
    IF s = << >> THEN << >>
    ELSE IF Head(s) = ch THEN Retain(Tail(s), ch)
         ELSE << Head(s) >> \o Retain(Tail(s), ch)

\* ------------------------------------------------------ ValueCreationQueue
ValueCreationQueueDefault == [ processing |-> None, queue |-> << >> ]

\* push placing the channel at the head of the queue.
push_front(q, reply_channel) ==
    [ q EXCEPT !.queue = << reply_channel >> \o @ ]

push(q, reply_channel) ==
    [ q EXCEPT !.queue = Append(@, reply_channel) ]

is_busy(q) == q.processing # None

\* pop_front into processing: the returned Option<String> is the new
\* processing.
PopNext(q) ==
    LET next_channel == IF q.queue = << >> THEN None ELSE Head(q.queue)
    IN [ q |-> [ processing |-> next_channel,
                 queue |-> IF q.queue = << >> THEN << >> ELSE Tail(q.queue) ],
         ret |-> next_channel ]

\* fetch_next without the is_busy test.
fetch_next_ignoring_busy(q) == PopNext(q)

\* Returns the queue after the call and the returned Option<String>.
fetch_next(q) ==
    IF is_busy(q) THEN [ q |-> q, ret |-> None ] ELSE PopNext(q)

\* finished_processing that frees the slot whoever asks.
finished_processing_unchecked(q, reply_channel) ==
    [ q |-> [ q EXCEPT !.processing = None ], ret |-> "Ok" ]

\* Returns the queue after the call and Ok or the error.
finished_processing(q, reply_channel) ==
    IF q.processing # reply_channel
    THEN [ q |-> q, ret |-> "UnexpectedJobId" ]
    ELSE [ q |-> [ q EXCEPT !.processing = None ], ret |-> "Ok" ]

\* remove that erases the channel from the waiting queue only.
ValueCreationQueue_remove_waiting_only(q, reply_channel) ==
    [ processing |-> q.processing, queue |-> Retain(q.queue, reply_channel) ]

ValueCreationQueue_remove(q, reply_channel) ==
    [ processing |-> IF q.processing = reply_channel THEN None ELSE q.processing,
      queue |-> Retain(q.queue, reply_channel) ]

\* ------------------------------------------------------------ NodeMetadata
NodeMetadataDefault ==
    [ wanted_by_reply_channels |-> << >>,
      processing_reply_channel |-> None,
      depends_on_node_ids |-> {} ]

\* merge_metadata pushing the channel at the front of wanted_by.
merge_metadata_push_front(node, reply_channel, dependencies) ==
    [ node EXCEPT
        !.wanted_by_reply_channels =
            IF reply_channel \in Range(@) THEN @ ELSE << reply_channel >> \o @,
        !.depends_on_node_ids = @ \cup dependencies ]

\* merge_metadata that replaces depends_on by the new dependencies.
merge_metadata_overwriting(node, reply_channel, dependencies) ==
    [ node EXCEPT
        !.wanted_by_reply_channels =
            IF reply_channel \in Range(@) THEN @ ELSE Append(@, reply_channel),
        !.depends_on_node_ids = dependencies ]

\* merge_metadata that pushes the channel without looking for it in wanted_by.
merge_metadata_always_pushing(node, reply_channel, dependencies) ==
    [ node EXCEPT
        !.wanted_by_reply_channels = Append(@, reply_channel),
        !.depends_on_node_ids = @ \cup dependencies ]

merge_metadata(node, reply_channel, dependencies) ==
    [ node EXCEPT
        !.wanted_by_reply_channels =
            IF reply_channel \in Range(@) THEN @ ELSE Append(@, reply_channel),
        !.depends_on_node_ids = @ \cup dependencies ]

remove_dependency(node, node_id) ==
    [ node EXCEPT !.depends_on_node_ids = @ \ {node_id} ]

\* The claim of a node that leaves the claimant at the head of wanted_by.
ClaimHeadWithoutPop(node) ==
    LET front == IF node.wanted_by_reply_channels = << >> THEN None
                 ELSE Head(node.wanted_by_reply_channels)
    IN [ node |-> [ node EXCEPT !.processing_reply_channel = front ],
         ret |-> front ]

\* The claim of a node: pop_front of wanted_by into processing.
ClaimHead(node) ==
    LET popped == IF node.wanted_by_reply_channels = << >> THEN None
                  ELSE Head(node.wanted_by_reply_channels)
    IN [ node |-> [ node EXCEPT
                      !.wanted_by_reply_channels = IF @ = << >> THEN @ ELSE Tail(@),
                      !.processing_reply_channel = popped ],
         ret |-> popped ]

\* next_to_process without the processing_reply_channel.is_none() test.
next_to_process_ignoring_claim(node) ==
    IF node.depends_on_node_ids = {}
    THEN ClaimHead(node)
    ELSE [ node |-> node, ret |-> None ]

\* next_to_process without the depends_on_node_ids.is_empty() test.
next_to_process_ignoring_dependencies(node) ==
    IF node.processing_reply_channel = None
    THEN ClaimHead(node)
    ELSE [ node |-> node, ret |-> None ]

\* Returns the node after the call and the returned Option<String>.
next_to_process(node) ==
    IF node.depends_on_node_ids = {} /\ node.processing_reply_channel = None
    THEN ClaimHead(node)
    ELSE [ node |-> node, ret |-> None ]

NodeMetadata_is_empty(node) ==
    node.wanted_by_reply_channels = << >> /\ node.processing_reply_channel = None

\* NodeMetadata::remove_channel that leaves processing alone.
NodeMetadata_remove_channel_keeping_processing(node, reply_channel) ==
    [ node EXCEPT !.wanted_by_reply_channels = Retain(@, reply_channel) ]

\* NodeMetadata::remove_channel that leaves wanted_by alone.
NodeMetadata_remove_channel_keeping_wanted_by(node, reply_channel) ==
    [ node EXCEPT
        !.processing_reply_channel = IF @ = reply_channel THEN None ELSE @ ]

NodeMetadata_remove_channel(node, reply_channel) ==
    [ node EXCEPT
        !.wanted_by_reply_channels = Retain(@, reply_channel),
        !.processing_reply_channel = IF @ = reply_channel THEN None ELSE @ ]

\* ---------------------------------------------------------- ChangeSetGraph
\* An empty HashMap<Id, NodeMetadata>.
EmptyNodeMap == [ id \in {} |-> NodeMetadataDefault ]

\* An empty HashMap<Id, HashMap<Id, NodeMetadata>>.
EmptyGraph == [ cs \in {} |-> EmptyNodeMap ]

ChangeSetGraph_is_empty(dd) == DOMAIN dd = {}

\* Every node of every change set is offered next_to_process. The returned
\* Vec<(String, Id)> is modelled as the set of <<channel, change set, id>>:
\* the change set tags the map the pair came from.
fetch_all_available(dd) ==
    [ graph |-> [ cs \in DOMAIN dd |->
                    [ id \in DOMAIN dd[cs] |-> next_to_process(dd[cs][id]).node ] ],
      result |-> { << next_to_process(dd[p[1]][p[2]]).ret, p[1], p[2] >> :
                     p \in { x \in UNION { { << cs, id >> : id \in DOMAIN dd[cs] } :
                                            cs \in DOMAIN dd } :
                               next_to_process(dd[x[1]][x[2]]).ret # None } } ]

\* entry(id).and_modify(merge_metadata).or_insert_with(default + merge_metadata)
Upsert(nodes, id, reply_channel, dependencies) ==
    [ n \in DOMAIN nodes \cup {id} |->
        IF n = id
        THEN merge_metadata(IF id \in DOMAIN nodes THEN nodes[id]
                            ELSE NodeMetadataDefault,
                            reply_channel, dependencies)
        ELSE nodes[n] ]

\* The merge of a graph entry that leaves its dependencies alone.
UpsertNoDependency(nodes, ids, reply_channel) == nodes

\* for dependency in dependencies { upsert(dependency, reply_channel, []) }
RECURSIVE UpsertEach(_, _, _)
UpsertEach(nodes, ids, reply_channel) ==
    IF ids = {} THEN nodes
    ELSE LET d == CHOOSE x \in ids : TRUE
         IN UpsertEach(Upsert(nodes, d, reply_channel, {}), ids \ {d}, reply_channel)

\* for (attribute_value_id, dependencies) in new_dependency_data { ... }
\* The HashMap is iterated in an unspecified order; the entries are taken in
\* the order CHOOSE gives.
RECURSIVE MergeEntries(_, _, _, _)
MergeEntries(nodes, reply_channel, g, todo) ==
    IF todo = {} THEN nodes
    ELSE LET id == CHOOSE x \in todo : TRUE
         IN MergeEntries(
                UpsertEach(Upsert(nodes, id, reply_channel, g[id]), g[id],
                           reply_channel),
                reply_channel, g, todo \ {id})

merge_dependency_graph(dd, reply_channel, new_dependency_data, change_set_id) ==
    LET change_set_graph_data ==
            IF change_set_id \in DOMAIN dd THEN dd[change_set_id] ELSE EmptyNodeMap
        merged == MergeEntries(change_set_graph_data, reply_channel,
                               new_dependency_data, DOMAIN new_dependency_data)
    IN [ cs \in DOMAIN dd \cup {change_set_id} |->
            IF cs = change_set_id THEN merged ELSE dd[cs] ]

\* The results of mark_node_as_processed: Ok(VecDeque), the two errors, and
\* the panic of the unwrap() on an absent change set.
MarkResult(kind, subscribers) == [ kind |-> kind, subscribers |-> subscribers ]

\* The removal of a complete node that leaves it in the depends_on sets of
\* the other nodes.
remove_complete_node_keeping_dependency(dd, change_set_id, node_id) ==
    LET rest == [ id \in DOMAIN dd[change_set_id] \ {node_id} |->
                    dd[change_set_id][id] ]
    IN IF DOMAIN rest = {}
       THEN [ cs \in DOMAIN dd \ {change_set_id} |-> dd[cs] ]
       ELSE [ dd EXCEPT ![change_set_id] = rest ]

\* The removal of a complete node that leaves the emptied change set in place.
remove_complete_node_keeping_entry(dd, change_set_id, node_id) ==
    [ dd EXCEPT ![change_set_id] =
        [ id \in DOMAIN dd[change_set_id] \ {node_id} |->
            remove_dependency(dd[change_set_id][id], node_id) ] ]

\* if node_is_complete { remove the node; remove_dependency on every other
\* node; remove the change set when no node is left }
remove_complete_node(dd, change_set_id, node_id) ==
    LET rest == [ id \in DOMAIN dd[change_set_id] \ {node_id} |->
                    remove_dependency(dd[change_set_id][id], node_id) ]
    IN IF DOMAIN rest = {}
       THEN [ cs \in DOMAIN dd \ {change_set_id} |-> dd[cs] ]
       ELSE [ dd EXCEPT ![change_set_id] = rest ]

mark_node_as_processed(dd, reply_channel, change_set_id, node_id) ==
    IF change_set_id \notin DOMAIN dd
    THEN [ graph |-> dd, ret |-> MarkResult("panic", << >>) ]
    ELSE IF node_id \notin DOMAIN dd[change_set_id]
    THEN [ graph |-> dd, ret |-> MarkResult("UnknownNodeId", << >>) ]
    ELSE IF dd[change_set_id][node_id].processing_reply_channel # reply_channel
    THEN [ graph |-> dd, ret |-> MarkResult("ShouldNotBeProcessingByJob", << >>) ]
    ELSE
      LET node_metadata ==
              [ dd[change_set_id][node_id] EXCEPT
                  !.processing_reply_channel = None,
                  !.wanted_by_reply_channels = Retain(@, reply_channel) ]
          node_is_complete == node_metadata.depends_on_node_ids = {}
      IN IF node_is_complete
         THEN [ graph |-> remove_complete_node(dd, change_set_id, node_id),
                ret |-> MarkResult("Ok", node_metadata.wanted_by_reply_channels) ]
         ELSE [ graph |-> [ dd EXCEPT ![change_set_id][node_id] = node_metadata ],
                ret |-> MarkResult("Ok", << >>) ]

\* remove_channel applied to every change set of the graph.
remove_channel_every_change_set(dd, change_set_id, reply_channel) ==
    [ cs \in DOMAIN dd |->
        LET after == [ id \in DOMAIN dd[cs] |->
                         NodeMetadata_remove_channel(dd[cs][id], reply_channel) ]
            keep == { id \in DOMAIN after : ~NodeMetadata_is_empty(after[id]) }
        IN [ id \in keep |-> after[id] ] ]

remove_channel(dd, change_set_id, reply_channel) ==
    IF change_set_id \in DOMAIN dd
    THEN LET after == [ id \in DOMAIN dd[change_set_id] |->
                          NodeMetadata_remove_channel(dd[change_set_id][id],
                                                      reply_channel) ]
             keep == { id \in DOMAIN after : ~NodeMetadata_is_empty(after[id]) }
         IN [ dd EXCEPT ![change_set_id] = [ id \in keep |-> after[id] ] ]
    ELSE dd

HasNode(dd, cs, id) == cs \in DOMAIN dd /\ id \in DOMAIN dd[cs]

\* ------------------------------------ a worker's report of a failed node
\* The failed node alone, with the nodes that name it in depends_on but not
\* the nodes that depend on those.
WithDirectDependents(nodes, gone) ==
    gone \cup { id \in DOMAIN nodes :
                  nodes[id].depends_on_node_ids \cap gone # {} }

\* The nodes of a change set that depend, directly or through other nodes, on
\* a node of gone: gone is grown by the nodes whose depends_on meets it until
\* no node is added.
RECURSIVE WithDependents(_, _)
WithDependents(nodes, gone) ==
    LET more == { id \in DOMAIN nodes \ gone :
                    nodes[id].depends_on_node_ids \cap gone # {} }
    IN IF more = {} THEN gone ELSE WithDependents(nodes, gone \cup more)

\* ValueProcessingFailed{ch, cs, n} from the claimant of n: the channels in
\* n's wanted_by are told of the failure, and n and the nodes that depend on
\* it are removed from the change set. From any other channel, or for an
\* absent node, nothing changes.
processing_failed(dd, reply_channel, change_set_id, node_id) ==
    IF /\ HasNode(dd, change_set_id, node_id)
       /\ dd[change_set_id][node_id].processing_reply_channel = reply_channel
    THEN LET nodes == dd[change_set_id]
             gone == WithDependents(nodes, {node_id})
         IN [ graph |-> [ dd EXCEPT ![change_set_id] =
                            [ id \in DOMAIN nodes \ gone |-> nodes[id] ] ],
              accepted |-> TRUE,
              notified |-> nodes[node_id].wanted_by_reply_channels,
              removed |-> gone ]
    ELSE [ graph |-> dd, accepted |-> FALSE, notified |-> << >>, removed |-> {} ]

\* ------------------------------------------------------------------- state
VARIABLES
    dependency_data,  \* ChangeSetGraph.dependency_data
    panicked,         \* the coordinator process has panicked
    holders,          \* <<ch, cs, id>> handed out by fetch_all_available whose
                      \* claim has not been ended by ch's mark_node_as_processed
                      \* or remove_channel (an unanswered ProcessValue)
    hist,             \* per live node: the first channel merged into it, the
                      \* channels merged into it in the order of their first
                      \* merge, how often it was handed out, and the dependencies
                      \* registered for it that have not been completed since
    merges,           \* merge_dependency_graph calls so far
    cancelled,        \* some remove_channel call has been made
    departed,         \* <<cs, ch>> such that remove_channel(cs, ch) was called and
                      \* ch has merged no graph into cs since
    last_failed,      \* the last accepted report of a failed node: the node, the
                      \* channels told of it and the nodes removed with it
    value_creation_queue,  \* a ValueCreationQueue
    pushed,           \* the channels pushed so far, in the order of the calls
    fetched,          \* the channels fetch_next returned so far, in order
    slot,             \* the channels fetch_next returned whose turn has not been
                      \* ended by their finished_processing or remove
    queue_removed,    \* some ValueCreationQueue::remove call has been made
    last_finished     \* what the last finished_processing call returned

graph_vars ==
    << dependency_data, panicked, holders, hist, merges, cancelled, departed,
       last_failed >>

queue_vars ==
    << value_creation_queue, pushed, fetched, slot, queue_removed, last_finished >>

vars == << graph_vars, queue_vars >>

\* The history of the nodes of dd2: kept for a node that was there, started
\* for a node that reply_channel's merge created.
Carry(h, dd2, reply_channel) ==
    [ cs \in DOMAIN dd2 |->
        [ id \in DOMAIN dd2[cs] |->
            IF HasNode(h, cs, id) THEN h[cs][id]
            ELSE [ first |-> reply_channel, order |-> << reply_channel >>,
                   handed |-> 0, unmet |-> {} ] ] ]

\* No report of a failed node has been accepted.
NoFailure ==
    [ change_set_id |-> None, node_id |-> None, notified |-> << >>, removed |-> {} ]

Init ==
    /\ dependency_data = EmptyGraph
    /\ panicked = FALSE
    /\ holders = {}
    /\ hist = EmptyGraph
    /\ merges = 0
    /\ cancelled = FALSE
    /\ departed = {}
    /\ last_failed = NoFailure
    /\ value_creation_queue = ValueCreationQueueDefault
    /\ pushed = << >>
    /\ fetched = << >>
    /\ slot = {}
    /\ queue_removed = FALSE
    /\ last_finished = None

\* The state as one record, so that a handler can apply one call after another.
Cur ==
    [ dd |-> dependency_data, panicked |-> panicked, holders |-> holders,
      hist |-> hist, merges |-> merges, cancelled |-> cancelled,
      departed |-> departed,
      last_failed |-> last_failed ]

Becomes(st) ==
    /\ dependency_data' = st.dd
    /\ panicked' = st.panicked
    /\ holders' = st.holders
    /\ hist' = st.hist
    /\ merges' = st.merges
    /\ cancelled' = st.cancelled
    /\ departed' = st.departed
    /\ last_failed' = st.last_failed
    /\ UNCHANGED queue_vars

\* merge_dependency_graph(ch, g, cs) applied to st.
AfterMerge(st, ch, g, cs) ==
    LET dd2 == merge_dependency_graph(st.dd, ch, g, cs)
        h1 == Carry(st.hist, dd2, ch)
        named == DOMAIN g \cup UNION { g[id] : id \in DOMAIN g }
        h2 == [ c \in DOMAIN h1 |->
                  [ id \in DOMAIN h1[c] |->
                      IF c = cs /\ id \in named /\ ch \notin Range(h1[c][id].order)
                      THEN [ h1[c][id] EXCEPT !.order = Append(@, ch) ]
                      ELSE h1[c][id] ] ]
    IN [ st EXCEPT
           !.dd = dd2,
           !.hist = [ c \in DOMAIN h2 |->
                        [ id \in DOMAIN h2[c] |->
                            IF c = cs /\ id \in DOMAIN g
                            THEN [ h2[c][id] EXCEPT !.unmet = @ \cup g[id] ]
                            ELSE h2[c][id] ] ],
           !.departed = @ \ { << cs, ch >> },
           !.merges = @ + 1 ]

\* fetch_all_available() applied to st: every returned pair is a ProcessValue
\* sent to its channel.
AfterFetch(st) ==
    LET r == fetch_all_available(st.dd)
    IN [ st EXCEPT
           !.dd = r.graph,
           !.holders = @ \cup r.result,
           !.hist = [ c \in DOMAIN st.hist |->
                        [ id \in DOMAIN st.hist[c] |->
                            IF \E ch \in Channels : << ch, c, id >> \in r.result
                            THEN [ st.hist[c][id] EXCEPT !.handed = @ + 1 ]
                            ELSE st.hist[c][id] ] ] ]

\* mark_node_as_processed(ch, cs, id) applied to st.
AfterMark(st, ch, cs, id) ==
    LET r == mark_node_as_processed(st.dd, ch, cs, id)
        h1 == Carry(st.hist, r.graph, ch)
        completed == r.ret.kind = "Ok" /\ ~HasNode(r.graph, cs, id)
    IN [ st EXCEPT
           !.dd = r.graph,
           !.panicked = (r.ret.kind = "panic"),
           !.holders = IF r.ret.kind = "Ok" THEN @ \ { << ch, cs, id >> } ELSE @,
           !.hist = [ c \in DOMAIN h1 |->
                        [ n \in DOMAIN h1[c] |->
                            IF c = cs /\ completed
                            THEN [ h1[c][n] EXCEPT !.unmet = @ \ {id} ]
                            ELSE h1[c][n] ] ] ]

\* remove_channel(cs, ch) applied to st.
AfterRemove(st, cs, ch) ==
    LET dd2 == remove_channel(st.dd, cs, ch)
    IN [ st EXCEPT
           !.dd = dd2,
           !.hist = Carry(st.hist, dd2, ch),
           !.holders = { t \in @ : ~(t[1] = ch /\ t[2] = cs) },
           !.departed = @ \cup { << cs, ch >> },
           !.cancelled = TRUE ]

\* The claimant's report of a failed node applied to st.
AfterFailed(st, ch, cs, id) ==
    LET r == processing_failed(st.dd, ch, cs, id)
    IN IF r.accepted
       THEN [ st EXCEPT
                !.dd = r.graph,
                !.holders = { t \in @ : ~(t[2] = cs /\ t[3] \in r.removed) },
                !.hist = Carry(st.hist, r.graph, ch),
                !.last_failed = [ change_set_id |-> cs, node_id |-> id,
                                  notified |-> r.notified, removed |-> r.removed ] ]
       ELSE st

\* ------------------------------------------------- the calls, one at a time
MergeDependencyGraph(ch, g, cs) ==
    /\ ~panicked
    /\ merges < MaxMerges
    /\ Becomes(AfterMerge(Cur, ch, g, cs))

FetchAllAvailable ==
    /\ ~panicked
    /\ Becomes(AfterFetch(Cur))

\* From any channel for any node, the claimant's answer or not.
MarkNodeAsProcessed(ch, cs, id) ==
    /\ ~panicked
    /\ Becomes(AfterMark(Cur, ch, cs, id))

RemoveChannel(cs, ch) ==
    /\ ~panicked
    /\ Becomes(AfterRemove(Cur, cs, ch))

Next ==
    \/ \E ch \in Channels, g \in Graphs, cs \in ChangeSets :
          MergeDependencyGraph(ch, g, cs)
    \/ FetchAllAvailable
    \/ \E ch \in Channels, cs \in ChangeSets, id \in Nodes :
          MarkNodeAsProcessed(ch, cs, id)
    \/ \E cs \in ChangeSets, ch \in Channels : RemoveChannel(cs, ch)

\* Any interleaving of the four calls on the graph.
Spec == Init /\ [][Next]_vars

\* The four calls on a graph of two change sets.
TwoNext ==
    \/ \E ch \in Channels, g \in TwoGraphs, cs \in TwoChangeSets :
          merges < MaxMergesTwo /\ MergeDependencyGraph(ch, g, cs)
    \/ FetchAllAvailable
    \/ \E ch \in Channels, cs \in TwoChangeSets, id \in Nodes :
          MarkNodeAsProcessed(ch, cs, id)
    \/ \E cs \in TwoChangeSets, ch \in Channels : RemoveChannel(cs, ch)

TwoSpec == Init /\ [][TwoNext]_vars

\* ------------------------------------- the coordinator loop's request handling
\* Each request is one call on the graph followed by a drain.
GraphSubmitted(ch, g, cs) ==
    /\ ~panicked
    /\ merges < MaxMerges
    /\ Becomes(AfterFetch(AfterMerge(Cur, ch, g, cs)))

ValueProcessed(ch, cs, id) ==
    /\ ~panicked
    /\ LET st == AfterMark(Cur, ch, cs, id)
       IN Becomes(IF st.panicked THEN st ELSE AfterFetch(st))

Cancel(ch, cs) ==
    /\ ~panicked
    /\ Becomes(AfterFetch(AfterRemove(Cur, cs, ch)))

ValueProcessingFailed(ch, cs, id) ==
    /\ ~panicked
    /\ Becomes(AfterFetch(AfterFailed(Cur, ch, cs, id)))

LoopNext ==
    \/ \E ch \in Channels, g \in Graphs, cs \in ChangeSets : GraphSubmitted(ch, g, cs)
    \/ \E ch \in Channels, cs \in ChangeSets, id \in Nodes : ValueProcessed(ch, cs, id)
    \/ \E ch \in Channels, cs \in ChangeSets : Cancel(ch, cs)
    \/ \E ch \in Channels, cs \in ChangeSets, id \in Nodes :
          ValueProcessingFailed(ch, cs, id)

\* The requests of the coordinator loop, each followed by its drain.
LoopSpec == Init /\ [][LoopNext]_vars

\* ------------------------------------------ the calls on a ValueCreationQueue
Push(ch) ==
    /\ Len(pushed) < MaxPushes
    /\ value_creation_queue' = push(value_creation_queue, ch)
    /\ pushed' = Append(pushed, ch)
    /\ UNCHANGED << fetched, slot, queue_removed, last_finished, graph_vars >>

FetchNext ==
    LET r == fetch_next(value_creation_queue)
    IN /\ value_creation_queue' = r.q
       /\ fetched' = IF r.ret = None THEN fetched ELSE Append(fetched, r.ret)
       /\ slot' = IF r.ret = None THEN slot ELSE slot \cup {r.ret}
       /\ UNCHANGED << pushed, queue_removed, last_finished, graph_vars >>

FinishedProcessing(ch) ==
    LET r == finished_processing(value_creation_queue, ch)
    IN /\ value_creation_queue' = r.q
       /\ slot' = IF r.ret = "Ok" THEN slot \ {ch} ELSE slot
       /\ last_finished' = r.ret
       /\ UNCHANGED << pushed, fetched, queue_removed, graph_vars >>

Remove(ch) ==
    /\ value_creation_queue' = ValueCreationQueue_remove(value_creation_queue, ch)
    /\ slot' = slot \ {ch}
    /\ queue_removed' = TRUE
    /\ UNCHANGED << pushed, fetched, last_finished, graph_vars >>

QueueNext ==
    \/ \E ch \in Channels : Push(ch)
    \/ FetchNext
    \/ \E ch \in Channels : FinishedProcessing(ch)
    \/ \E ch \in Channels : Remove(ch)

\* Any interleaving of the four calls on one ValueCreationQueue.
QueueSpec == Init /\ [][QueueNext]_vars

\* ---------------------------------------------------------------- helpers
LiveNodes ==
    { p \in ChangeSets \X Nodes : HasNode(dependency_data, p[1], p[2]) }

Meta(p) == dependency_data[p[1]][p[2]]

\* What a drain of the current graph would hand out.
Available == fetch_all_available(dependency_data).result

\* Every ProcessValue has been answered and a drain hands out nothing more:
\* from here the graph changes only if a worker registers a new graph or
\* cancels, so whatever is still waiting in such a state waits for ever.
Quiescent == ~panicked /\ holders = {} /\ Available = {}

\* ------------------------------------------------------------------ claims

\* C1: Single processor. Each node has at most one claimant (a channel that
\* fetch_all_available returned for it and whose claim was not ended by its
\* mark_node_as_processed or remove_channel), and while a node has a claimant
\* fetch_all_available returns no pair for it.
C1_SingleProcessor ==
    /\ \A p \in ChangeSets \X Nodes :
          Cardinality({ ch \in Channels : << ch, p[1], p[2] >> \in holders }) <= 1
    /\ \A t \in holders : \A ch \in Channels : << ch, t[2], t[3] >> \notin Available

\* A claimed node with no dependency left and another channel waiting: only
\* the claim keeps the node from being handed out again.
C1_Witness ==
    \E t \in holders :
        /\ HasNode(dependency_data, t[2], t[3])
        /\ dependency_data[t[2]][t[3]].depends_on_node_ids = {}
        /\ dependency_data[t[2]][t[3]].wanted_by_reply_channels # << >>
        /\ t[1] \notin Range(dependency_data[t[2]][t[3]].wanted_by_reply_channels)

\* C2: No premature claim. A node whose processing channel is set has an
\* empty depends_on set.
C2_NoPrematureClaim ==
    \A p \in LiveNodes :
        Meta(p).processing_reply_channel # None => Meta(p).depends_on_node_ids = {}

\* C3: Dependency ordering. fetch_all_available returns (ch, n) only when
\* every dependency registered for n has been completed through
\* mark_node_as_processed; a claimed node has no such dependency at the time
\* it is handed out.
C3_DependencyOrdering ==
    \A t \in Available : hist[t[2]][t[3]].unmet = {}

\* The linear chain submitted by w1 alone: C has been handed to w1 while B
\* waits for C and A waits for B.
C3_Witness ==
    /\ merges = 1
    /\ holders = { << "w1", "cs1", "C" >> }
    /\ HasNode(hist, "cs1", "A") /\ hist["cs1"]["A"].unmet = {"B"}
    /\ HasNode(hist, "cs1", "B") /\ hist["cs1"]["B"].unmet = {"C"}
    /\ Available = {}

\* C4: Termination. With no cancellation and no failure, once every
\* ProcessValue has been answered and a drain hands out nothing more, no node
\* is left in any change set.
C4_Termination ==
    (Quiescent /\ ~cancelled) => LiveNodes = {}

\* C5: Exactly-one processor notification. With no cancellation, a node is
\* handed out at most once between its creation and its removal, and only to
\* the first channel that registered it.
C5_ExactlyOnce ==
    ~cancelled =>
        /\ \A p \in LiveNodes : hist[p[1]][p[2]].handed <= 1
        /\ \A t \in holders : t[1] = hist[t[2]][t[3]].first

\* C6: FIFO per node. Absent cancellation, the first hand-out of a node goes
\* to the first channel merged into it.
C6_FifoPerNode ==
    ~cancelled =>
        /\ \A t \in Available :
              hist[t[2]][t[3]].handed = 0 => t[1] = hist[t[2]][t[3]].first
        /\ \A t \in holders :
              hist[t[2]][t[3]].handed = 1 => t[1] = hist[t[2]][t[3]].first

\* A node handed out once, to its first channel, while a channel that merged
\* later waits in wanted_by.
C6_Witness ==
    /\ ~cancelled
    /\ \E t \in holders :
          /\ hist[t[2]][t[3]].handed = 1
          /\ t[1] = hist[t[2]][t[3]].first
          /\ dependency_data[t[2]][t[3]].wanted_by_reply_channels # << >>
          /\ t[1] \notin Range(dependency_data[t[2]][t[3]].wanted_by_reply_channels)

\* C7: Subscriber completeness. With no cancellation, once every ProcessValue
\* has been answered and a drain hands out nothing more, no channel is still
\* waiting in a wanted_by list: each has been handed the node or told of it.
C7_SubscriberCompleteness ==
    (Quiescent /\ ~cancelled) =>
        \A p \in LiveNodes : Meta(p).wanted_by_reply_channels = << >>

\* C8: Cleanup. A mark_node_as_processed that completes the last node of a
\* change set removes the change-set entry, and the graph is empty when it
\* was the only change set.
C8_Cleanup ==
    \A ch \in Channels, cs \in ChangeSets, id \in Nodes :
        LET r == mark_node_as_processed(dependency_data, ch, cs, id)
        IN ( /\ HasNode(dependency_data, cs, id)
             /\ r.ret.kind = "Ok"
             /\ \A n \in Nodes : ~HasNode(r.graph, cs, n) )
           => /\ cs \notin DOMAIN r.graph
              /\ (DOMAIN dependency_data = {cs} => ChangeSetGraph_is_empty(r.graph))

\* The last node of the only change set has been completed: only
\* mark_node_as_processed removes a change-set entry.
C8_Witness ==
    merges > 0 /\ ChangeSetGraph_is_empty(dependency_data) /\ ~panicked

\* C9: Claim release. remove_channel(cs, ch) applied while ch is processing
\* node n and other channels are in n's wanted_by clears the claim, and the
\* next fetch_all_available returns (head of the remaining wanted_by, n).
C9_ClaimRelease ==
    \A cs \in ChangeSets, ch \in Channels, id \in Nodes :
        LET dd2 == remove_channel(dependency_data, cs, ch)
        IN ( /\ HasNode(dependency_data, cs, id)
             /\ dependency_data[cs][id].processing_reply_channel = ch
             /\ Retain(dependency_data[cs][id].wanted_by_reply_channels, ch) # << >> )
           => /\ HasNode(dd2, cs, id)
              /\ dd2[cs][id].processing_reply_channel = None
              /\ << Head(Retain(dependency_data[cs][id].wanted_by_reply_channels, ch)),
                    cs, id >> \in fetch_all_available(dd2).result

\* C10: No deadlock after disconnect. After a cancellation, once every
\* ProcessValue has been answered and a drain hands out nothing more, no node
\* is still wanted by a remaining channel.
C10_NoDeadlockAfterDisconnect ==
    (Quiescent /\ cancelled) =>
        \A p \in LiveNodes : Meta(p).wanted_by_reply_channels = << >>

\* C11: The value-creation queue is FIFO. As long as no channel has been
\* removed, the channels fetch_next has returned followed by the channels still
\* waiting are the pushed channels in the order they were pushed.
C11_QueueFifo ==
    ~queue_removed => fetched \o value_creation_queue.queue = pushed

\* Two different channels were pushed and fetch_next returned both, each after
\* the finished_processing of the one before.
C11_Witness ==
    /\ ~queue_removed
    /\ Len(pushed) >= 2
    /\ pushed[1] # pushed[2]
    /\ fetched = pushed

\* C12: Queue serialization. At most one channel holds the value-creation
\* slot, and while a channel holds it fetch_next returns none.
C12_QueueSerialization ==
    /\ Cardinality(slot) <= 1
    /\ slot # {} => /\ fetch_next(value_creation_queue).ret = None
                    /\ fetch_next(value_creation_queue).q = value_creation_queue
                    /\ slot = { value_creation_queue.processing }

\* One channel holds the slot while another one waits at the head of the queue.
C12_Witness ==
    /\ Cardinality(slot) = 1
    /\ value_creation_queue.queue # << >>
    /\ Head(value_creation_queue.queue) \notin slot

\* C15: finished_processing(ch) returns Ok and frees the slot when ch is the
\* processing channel; for any other ch it returns UnexpectedJobId and leaves
\* the processing slot and the waiting queue as they were.
C15_FinishedProcessing ==
    \A ch \in Channels :
        LET r == finished_processing(value_creation_queue, ch)
        IN IF value_creation_queue.processing = ch
           THEN /\ r.ret = "Ok"
                /\ r.q.processing = None
                /\ r.q.queue = value_creation_queue.queue
           ELSE /\ r.ret = "UnexpectedJobId"
                /\ r.q = value_creation_queue

\* finished_processing was refused to a channel while another channel held
\* the slot, which it still holds, and a channel is waiting behind it.
C15_Witness ==
    /\ last_finished = "UnexpectedJobId"
    /\ value_creation_queue.processing # None
    /\ slot = { value_creation_queue.processing }
    /\ value_creation_queue.queue # << >>

\* C13: For every (ch, cs, n), mark_node_as_processed returns UnknownNodeId
\* when node n does not exist and ShouldNotBeProcessingByJob when n exists and
\* its processing channel is not ch (unset or another channel); in both cases
\* the graph is left exactly as it was.
C13_MarkErrors ==
    \A ch \in Channels, cs \in ChangeSets, id \in Nodes :
        LET r == mark_node_as_processed(dependency_data, ch, cs, id)
        IN /\ ~HasNode(dependency_data, cs, id)
                => (r.ret.kind = "UnknownNodeId" /\ r.graph = dependency_data)
           /\ ( /\ HasNode(dependency_data, cs, id)
                /\ dependency_data[cs][id].processing_reply_channel # ch )
                => ( /\ r.ret.kind = "ShouldNotBeProcessingByJob"
                     /\ r.graph = dependency_data )

\* C14: A ValueProcessed request never crashes the coordinator: whatever
\* (ch, cs, n) mark_node_as_processed is called with, the process has not
\* panicked.
C14_NeverCrashes == ~panicked

\* m depends on n through the depends_on sets of the nodes of a change set.
DependsOnThrough(nodes, m, n) ==
    \E k \in 2..Cardinality(Nodes) : \E path \in [ 1..k -> Nodes ] :
        /\ path[1] = m
        /\ path[k] = n
        /\ \A i \in 1..(k - 1) :
              /\ path[i] \in DOMAIN nodes
              /\ path[i + 1] \in nodes[path[i]].depends_on_node_ids

\* C16: Failure cascade. When the claimant of node n reports the failure of
\* n, the channels told of it are the channels in n's wanted_by, and n and
\* every node of the change set that depends on n, directly or through other
\* nodes, are removed from the change set.
C16_FailureCascade ==
    \A ch \in Channels, cs \in ChangeSets, id \in Nodes :
        ( /\ HasNode(dependency_data, cs, id)
          /\ dependency_data[cs][id].processing_reply_channel = ch )
        => LET r == processing_failed(dependency_data, ch, cs, id)
               nodes == dependency_data[cs]
           IN /\ r.accepted
              /\ r.notified = nodes[id].wanted_by_reply_channels
              /\ cs \in DOMAIN r.graph
              /\ \A m \in DOMAIN nodes :
                    (m = id \/ DependsOnThrough(nodes, m, id))
                        => m \notin DOMAIN r.graph[cs]

\* w1 submitted the chain {A: [B], B: [C], C: []}, was handed C and reported
\* its failure: C, B and A were removed and the change set has no node left.
C16_Witness ==
    /\ merges = 1
    /\ last_failed.node_id = "C"
    /\ last_failed.removed = {"A", "B", "C"}
    /\ "cs1" \in DOMAIN dependency_data
    /\ DOMAIN dependency_data["cs1"] = {}
    /\ holders = {}

\* C17: Change sets are independent. merge_dependency_graph,
\* mark_node_as_processed and remove_channel applied to change set x leave the
\* node map of every other change set as it was, and a node id used in two
\* change sets is claimed per change set: a node is being processed by ch in
\* cs exactly when ch was handed that node of cs and has not answered or
\* cancelled in cs.
C17_ChangeSetsIndependent ==
    /\ \A x \in TwoChangeSets : \A y \in DOMAIN dependency_data \ {x} :
          /\ \A ch \in Channels, g \in TwoGraphs :
                LET dd2 == merge_dependency_graph(dependency_data, ch, g, x)
                IN y \in DOMAIN dd2 /\ dd2[y] = dependency_data[y]
          /\ \A ch \in Channels, id \in Nodes :
                LET r == mark_node_as_processed(dependency_data, ch, x, id)
                IN y \in DOMAIN r.graph /\ r.graph[y] = dependency_data[y]
          /\ \A ch \in Channels :
                LET dd2 == remove_channel(dependency_data, x, ch)
                IN y \in DOMAIN dd2 /\ dd2[y] = dependency_data[y]
    /\ \A cs \in DOMAIN dependency_data : \A id \in DOMAIN dependency_data[cs] :
          \A ch \in Channels :
              dependency_data[cs][id].processing_reply_channel = ch
                  <=> << ch, cs, id >> \in holders

\* Node A is in both change sets: in cs1 it is being processed by w1 and
\* w2 waits for it, in cs2 it waits for B.
C17_Witness ==
    /\ HasNode(dependency_data, "cs1", "A")
    /\ HasNode(dependency_data, "cs2", "A")
    /\ dependency_data["cs1"]["A"].processing_reply_channel = "w1"
    /\ dependency_data["cs1"]["A"].depends_on_node_ids = {}
    /\ dependency_data["cs1"]["A"].wanted_by_reply_channels = << "w2" >>
    /\ dependency_data["cs2"]["A"].processing_reply_channel = None
    /\ dependency_data["cs2"]["A"].depends_on_node_ids = {"B"}
    /\ << "w1", "cs1", "A" >> \in holders

\* C18: After merge_dependency_graph(ch, g, cs), every node declared in g
\* and every node listed as a dependency in g exists in cs, each declared
\* node's depends_on contains its listed dependencies, and ch is in wanted_by
\* of every declared node and of every dependency node.
C18_MergePostcondition ==
    \A ch \in Channels, g \in Graphs, cs \in ChangeSets :
        LET dd2 == merge_dependency_graph(dependency_data, ch, g, cs)
        IN \A id \in DOMAIN g :
              /\ HasNode(dd2, cs, id)
              /\ g[id] \subseteq dd2[cs][id].depends_on_node_ids
              /\ ch \in Range(dd2[cs][id].wanted_by_reply_channels)
              /\ \A dep \in g[id] :
                    /\ HasNode(dd2, cs, dep)
                    /\ ch \in Range(dd2[cs][dep].wanted_by_reply_channels)

\* After w1's merge and w2's merge of graphs naming B as a dependency of A:
\* both are subscribed, in that order, on A and on B, and A depends on B.
C18_Witness ==
    /\ merges = 2
    /\ HasNode(dependency_data, "cs1", "A")
    /\ HasNode(dependency_data, "cs1", "B")
    /\ "C" \notin DOMAIN dependency_data["cs1"]
    /\ dependency_data["cs1"]["A"].depends_on_node_ids = {"B"}
    /\ dependency_data["cs1"]["A"].wanted_by_reply_channels = << "w1", "w2" >>
    /\ dependency_data["cs1"]["B"].wanted_by_reply_channels = << "w1", "w2" >>

\* C19: A successful mark_node_as_processed(ch, cs, n) on a node whose
\* depends_on is empty removes n from the change set and from the depends_on
\* set of every other node of the change set, removes the change-set entry
\* iff no node remains, and adds or deletes no other node.
C19_CompleteNodeRemoved ==
    \A ch \in Channels, cs \in ChangeSets, id \in Nodes :
        ( /\ HasNode(dependency_data, cs, id)
          /\ dependency_data[cs][id].processing_reply_channel = ch
          /\ dependency_data[cs][id].depends_on_node_ids = {} )
        => LET r == mark_node_as_processed(dependency_data, ch, cs, id)
               others == DOMAIN dependency_data[cs] \ {id}
           IN /\ r.ret.kind = "Ok"
              /\ DOMAIN r.graph \cup {cs} = DOMAIN dependency_data
              /\ (cs \in DOMAIN r.graph) <=> (others # {})
              /\ others # {} =>
                    /\ DOMAIN r.graph[cs] = others
                    /\ \A m \in others :
                          r.graph[cs][m] =
                              [ dependency_data[cs][m] EXCEPT
                                  !.depends_on_node_ids = @ \ {id} ]

\* w1 submitted the fan-out {A: [C], B: [C], C: []} and completed C: C is
\* gone and neither A nor B depends on anything.
C19_Witness ==
    /\ merges = 1
    /\ "cs1" \in DOMAIN dependency_data
    /\ DOMAIN dependency_data["cs1"] = {"A", "B"}
    /\ dependency_data["cs1"]["A"].depends_on_node_ids = {}
    /\ dependency_data["cs1"]["B"].depends_on_node_ids = {}
    /\ holders = {}

\* C20: A successful mark_node_as_processed(ch, cs, n) returns the node's
\* remaining wanted_by list: the channels still subscribed to n other than
\* ch, each once, in wanted_by order, and never ch itself.
C20_ReturnsRemainingWantedBy ==
    \A ch \in Channels, cs \in ChangeSets, id \in Nodes :
        ( /\ HasNode(dependency_data, cs, id)
          /\ dependency_data[cs][id].processing_reply_channel = ch )
        => LET r == mark_node_as_processed(dependency_data, ch, cs, id)
               remaining == Retain(dependency_data[cs][id].wanted_by_reply_channels, ch)
           IN /\ r.ret.kind = "Ok"
              /\ r.ret.subscribers = remaining
              /\ ch \notin Range(r.ret.subscribers)
              /\ Cardinality(Range(r.ret.subscribers)) = Len(r.ret.subscribers)

\* A node is eligible: depends_on empty, processing unset, wanted_by non-empty.
Eligible(node) ==
    /\ node.depends_on_node_ids = {}
    /\ node.processing_reply_channel = None
    /\ node.wanted_by_reply_channels # << >>

\* C21: fetch_all_available returns exactly one pair (ch, n) for each eligible
\* node n of any change set, with ch the head of n's wanted_by, which is
\* popped and stored as processing; every other node is left unchanged, and
\* an immediately repeated call returns nothing.
C21_FetchClaimsEligible ==
    LET dd == dependency_data
        r == fetch_all_available(dd)
    IN /\ r.result =
            UNION { { << Head(dd[cs][id].wanted_by_reply_channels), cs, id >> :
                        id \in { n \in DOMAIN dd[cs] : Eligible(dd[cs][n]) } } :
                    cs \in DOMAIN dd }
       /\ DOMAIN r.graph = DOMAIN dd
       /\ \A cs \in DOMAIN dd :
             /\ DOMAIN r.graph[cs] = DOMAIN dd[cs]
             /\ \A id \in DOMAIN dd[cs] :
                   IF Eligible(dd[cs][id])
                   THEN r.graph[cs][id] =
                          [ dd[cs][id] EXCEPT
                              !.processing_reply_channel =
                                  Head(dd[cs][id].wanted_by_reply_channels),
                              !.wanted_by_reply_channels = Tail(@) ]
                   ELSE r.graph[cs][id] = dd[cs][id]
       /\ fetch_all_available(r.graph).result = {}
       /\ fetch_all_available(r.graph).graph = r.graph

\* One fetch_all_available handed out A and B together, both to w1 while w2
\* waits on each: the fan-out submitted by w1 and w2, after C was completed.
C21_Witness ==
    /\ holders = { << "w1", "cs1", "A" >>, << "w1", "cs1", "B" >> }
    /\ "cs1" \in DOMAIN dependency_data
    /\ DOMAIN dependency_data["cs1"] = {"A", "B"}
    /\ dependency_data["cs1"]["A"].wanted_by_reply_channels = << "w2" >>
    /\ dependency_data["cs1"]["B"].wanted_by_reply_channels = << "w2" >>
    /\ Available = {}

\* C22: remove_channel(cs, ch) deletes a node only when no other node that
\* stays in the change set lists it in depends_on.
C22_ReferencedNodeKept ==
    \A cs \in ChangeSets, ch \in Channels :
        cs \in DOMAIN dependency_data =>
            LET dd2 == remove_channel(dependency_data, cs, ch)
            IN \A id \in DOMAIN dependency_data[cs] \ DOMAIN dd2[cs] :
                  \A m \in DOMAIN dd2[cs] : id \notin dd2[cs][m].depends_on_node_ids

\* C23: After remove_channel(cs, ch), ch is in no wanted_by list and is no
\* node's processing channel within cs; every surviving node keeps the other
\* channels of wanted_by in their order, a processing channel other than ch,
\* and its depends_on; no node is added; and when cs is unknown the graph is
\* unchanged.
C23_RemoveChannelFrame ==
    \A cs \in ChangeSets, ch \in Channels :
        LET dd == dependency_data
            dd2 == remove_channel(dd, cs, ch)
        IN IF cs \notin DOMAIN dd
           THEN dd2 = dd
           ELSE /\ DOMAIN dd2 = DOMAIN dd
                /\ DOMAIN dd2[cs] \subseteq DOMAIN dd[cs]
                /\ \A id \in DOMAIN dd2[cs] :
                      /\ ch \notin Range(dd2[cs][id].wanted_by_reply_channels)
                      /\ dd2[cs][id].processing_reply_channel # ch
                      /\ dd2[cs][id].wanted_by_reply_channels =
                            Retain(dd[cs][id].wanted_by_reply_channels, ch)
                      /\ dd[cs][id].processing_reply_channel # ch =>
                            dd2[cs][id].processing_reply_channel =
                                dd[cs][id].processing_reply_channel
                      /\ dd2[cs][id].depends_on_node_ids =
                            dd[cs][id].depends_on_node_ids

\* w1 was handed A and then cancelled: A is unclaimed again, w2, which merged
\* after w1, is alone in wanted_by, and nothing has been handed out since.
C23_Witness ==
    /\ << "cs1", "w1" >> \in departed
    /\ HasNode(dependency_data, "cs1", "A")
    /\ hist["cs1"]["A"].first = "w1"
    /\ hist["cs1"]["A"].handed = 1
    /\ dependency_data["cs1"]["A"].processing_reply_channel = None
    /\ dependency_data["cs1"]["A"].wanted_by_reply_channels = << "w2" >>
    /\ dependency_data["cs1"]["A"].depends_on_node_ids = {}
    /\ holders = {}

\* C24: No change-set entry maps to an empty node map, so
\* ChangeSetGraph::is_empty is true exactly when no node is tracked.
C24_NoEmptyChangeSet ==
    /\ \A cs \in DOMAIN dependency_data : DOMAIN dependency_data[cs] # {}
    /\ ChangeSetGraph_is_empty(dependency_data) <=> LiveNodes = {}

\* The depends_on sets of the nodes of dd that are still in dd2 are related
\* by R(before, after, cs, id).
DependsOnRelated(dd, dd2, R(_, _, _, _)) ==
    \A cs \in DOMAIN dd : \A id \in DOMAIN dd[cs] :
        HasNode(dd2, cs, id) =>
            R(dd[cs][id].depends_on_node_ids, dd2[cs][id].depends_on_node_ids, cs, id)

\* C25: A node's depends_on set shrinks monotonically: once the node exists,
\* no operation (merge_dependency_graph, fetch_all_available,
\* mark_node_as_processed, remove_channel) adds an id to it.
C25_DependsOnShrinks ==
    LET dd == dependency_data
        Shrinks(before, after, cs, id) == after \subseteq before
    IN /\ \A ch \in Channels, g \in Graphs, cs \in ChangeSets :
             DependsOnRelated(dd, merge_dependency_graph(dd, ch, g, cs), Shrinks)
       /\ DependsOnRelated(dd, fetch_all_available(dd).graph, Shrinks)
       /\ \A ch \in Channels, cs \in ChangeSets, id \in Nodes :
             DependsOnRelated(dd, mark_node_as_processed(dd, ch, cs, id).graph, Shrinks)
       /\ \A cs \in ChangeSets, ch \in Channels :
             DependsOnRelated(dd, remove_channel(dd, cs, ch), Shrinks)

\* C25 as amended: merge_dependency_graph(ch, g, cs) adds to the depends_on of
\* a node that exists exactly the dependencies g lists for it, and removes
\* none; fetch_all_available and remove_channel leave depends_on as it is; a
\* successful mark_node_as_processed(ch, cs, n) that removes n removes n from
\* the depends_on of the other nodes and changes nothing else.
C25_DependsOnGrowsOnlyByMerge ==
    LET dd == dependency_data
        Same(before, after, cs, id) == after = before
    IN /\ \A ch \in Channels, g \in Graphs, x \in ChangeSets :
             LET Unioned(before, after, cs, id) ==
                     after = before \cup
                               (IF cs = x /\ id \in DOMAIN g THEN g[id] ELSE {})
             IN DependsOnRelated(dd, merge_dependency_graph(dd, ch, g, x), Unioned)
       /\ DependsOnRelated(dd, fetch_all_available(dd).graph, Same)
       /\ \A ch \in Channels, x \in ChangeSets, n \in Nodes :
             LET r == mark_node_as_processed(dd, ch, x, n)
                 Completed(before, after, cs, id) ==
                     after = IF cs = x /\ ~HasNode(r.graph, x, n) /\ HasNode(dd, x, n)
                             THEN before \ {n} ELSE before
             IN DependsOnRelated(dd, r.graph, Completed)
       /\ \A cs \in ChangeSets, ch \in Channels :
             DependsOnRelated(dd, remove_channel(dd, cs, ch), Same)

\* A existed with no dependency when w2's merge of {A: [B], B: []} added B to
\* its depends_on: w1 is subscribed on A only, w2 on A and B.
C25_Witness ==
    /\ merges = 2
    /\ HasNode(dependency_data, "cs1", "A")
    /\ HasNode(dependency_data, "cs1", "B")
    /\ hist["cs1"]["A"].first = "w1"
    /\ hist["cs1"]["B"].first = "w2"
    /\ hist["cs1"]["B"].order = << "w2" >>
    /\ dependency_data["cs1"]["A"].depends_on_node_ids = {"B"}
    /\ dependency_data["cs1"]["A"].wanted_by_reply_channels = << "w1", "w2" >>
    /\ dependency_data["cs1"]["B"].wanted_by_reply_channels = << "w2" >>

\* The dependency lists of the submitted graphs.
DependencyLists == UNION { { g[id] : id \in DOMAIN g } : g \in Graphs }

\* C26: Merging is idempotent: merge_metadata(ch, deps) applied twice in a
\* row to a node, and merge_dependency_graph(ch, g, cs) applied twice in a row
\* to the graph, give the state that one application gives.
C26_MergeIdempotent ==
    /\ \A p \in LiveNodes : \A ch \in Channels : \A deps \in DependencyLists :
          merge_metadata(merge_metadata(Meta(p), ch, deps), ch, deps)
              = merge_metadata(Meta(p), ch, deps)
    /\ \A ch \in Channels, g \in Graphs, cs \in ChangeSets :
          LET once == merge_dependency_graph(dependency_data, ch, g, cs)
          IN merge_dependency_graph(once, ch, g, cs) = once

\* After two merges the graph is what w1's merge of the chain
\* {A: [B], B: [C], C: []} alone gives: a replay of that merge changed nothing.
C26_Witness ==
    /\ merges = 2
    /\ dependency_data =
          merge_dependency_graph(
              EmptyGraph, "w1",
              [ n \in {"A", "B", "C"} |->
                  IF n = "A" THEN {"B"} ELSE IF n = "B" THEN {"C"} ELSE {} ],
              "cs1")

\* The position of a channel in a list that contains it.
IndexOf(list, ch) == CHOOSE i \in DOMAIN list : list[i] = ch

NoDuplicates(list) == Cardinality(Range(list)) = Len(list)

\* The channels of list are in the order they have in order.
ListedInOrderOf(list, order) ==
    /\ Range(list) \subseteq Range(order)
    /\ \A i, j \in DOMAIN list :
          i < j => IndexOf(order, list[i]) < IndexOf(order, list[j])

\* C27: Every node's wanted_by contains no channel twice and lists the
\* channels in the order of their first merge into the node.
C27_WantedByFirstMergeOrder ==
    \A p \in LiveNodes :
        /\ NoDuplicates(Meta(p).wanted_by_reply_channels)
        /\ ListedInOrderOf(Meta(p).wanted_by_reply_channels, hist[p[1]][p[2]].order)

\* after is before with channels removed and, behind them, channels added.
KeepsOrder(before, after) ==
    LET InBefore(ch) == ch \in Range(before)
        InAfter(ch) == ch \in Range(after)
        kept == SelectSeq(after, InBefore)
    IN /\ kept = SelectSeq(before, InAfter)
       /\ SubSeq(after, 1, Len(kept)) = kept

\* C27 as amended: every node's wanted_by contains no channel twice, and no
\* operation reorders it: a merge_dependency_graph step only appends channels
\* at the back, and fetch_all_available, mark_node_as_processed and
\* remove_channel steps only remove channels.
C27_WantedByInsertionOrder ==
    /\ [](\A p \in LiveNodes : NoDuplicates(Meta(p).wanted_by_reply_channels))
    /\ [][ \A cs \in ChangeSets, id \in Nodes :
             (HasNode(dependency_data, cs, id) /\ HasNode(dependency_data', cs, id))
             => LET before == dependency_data[cs][id].wanted_by_reply_channels
                    after == dependency_data'[cs][id].wanted_by_reply_channels
                IN /\ KeepsOrder(before, after)
                   /\ IF merges' # merges
                      THEN Range(before) \subseteq Range(after)
                      ELSE Range(after) \subseteq Range(before) ]_vars

\* w1 merged into A first and w2 second, yet w2 is listed before w1: w1 left
\* the list and merged again.
C27_Witness ==
    /\ HasNode(dependency_data, "cs1", "A")
    /\ hist["cs1"]["A"].order = << "w1", "w2" >>
    /\ dependency_data["cs1"]["A"].wanted_by_reply_channels = << "w2", "w1" >>

\* C28: After ValueCreationQueue::remove(ch), ch is neither the processing
\* channel nor in the waiting queue, the other waiting channels keep their
\* order, another channel's slot is kept, and if ch held the slot the queue is
\* not busy and the next fetch_next returns the oldest remaining waiting
\* channel.
C28_QueueRemove ==
    \A ch \in Channels :
        LET q == value_creation_queue
            r == ValueCreationQueue_remove(q, ch)
            InQueue(x) == x # ch
        IN /\ r.processing # ch
           /\ ch \notin Range(r.queue)
           /\ r.queue = SelectSeq(q.queue, InQueue)
           /\ q.processing # ch => r.processing = q.processing
           /\ q.processing = ch =>
                 /\ ~is_busy(r)
                 /\ fetch_next(r).ret =
                       IF r.queue = << >> THEN None ELSE Head(r.queue)
                 /\ fetch_next(r).ret # None => fetch_next(r).q.processing = Head(r.queue)

\* w1 held the slot and was also waiting behind w2 when it was removed: the
\* slot is free and w2 is the only channel waiting.
C28_Witness ==
    /\ queue_removed
    /\ pushed = << "w1", "w2", "w1" >>
    /\ fetched = << "w1" >>
    /\ last_finished = None
    /\ value_creation_queue = [ processing |-> None, queue |-> << "w2" >> ]

\* C29: Every node present in a change set has at least one interested
\* channel: its wanted_by is non-empty or its processing is set.
C29_EveryNodeWanted ==
    \A p \in LiveNodes : ~NodeMetadata_is_empty(Meta(p))

\* C30: After remove_channel(cs, ch) and until ch merges a graph into cs
\* again, fetch_all_available returns no pair (ch, n) for a node of cs and no
\* list returned by mark_node_as_processed for cs contains ch.
C30_DepartedNotNotified ==
    \A d \in departed :
        /\ \A t \in Available : ~(t[1] = d[2] /\ t[2] = d[1])
        /\ \A ch \in Channels, id \in Nodes :
              d[2] \notin
                  Range(mark_node_as_processed(dependency_data, ch, d[1], id)
                            .ret.subscribers)

\* w1, the first to merge into A, cancelled and has not merged since; A has
\* then been handed to w2.
C30_Witness ==
    /\ << "cs1", "w1" >> \in departed
    /\ HasNode(dependency_data, "cs1", "A")
    /\ hist["cs1"]["A"].first = "w1"
    /\ hist["cs1"]["A"].handed = 2
    /\ holders = { << "w2", "cs1", "A" >> }

====
